---- MODULE Spec2Model ----
(***************************************************************************)
(* The native Poseidon hash of halo2_poseidon/src/primitive.rs: the        *)
(* permutation, the duplex sponge (Duplex::absorb / Duplex::squeeze), the   *)
(* ConstantLength domain and the Hash facade.                               *)
(*                                                                         *)
(* Rust arrays are 0-indexed, TLA+ sequences 1-indexed: lane / slot i of    *)
(* the source is element i + 1 of the sequence, read with At(s, i).         *)
(***************************************************************************)
EXTENDS Integers, Sequences, FiniteSets

VARIABLES
    RATE,       \* const generic RATE of Duplex / Hash
    T,          \* const generic T (state width)
    L,          \* const generic L of ConstantLength<L>
    S,          \* the Spec: full_rounds(), partial_rounds() and which constants() it has
    sponge,     \* Duplex.sponge : [mode, buf]
    state,      \* Duplex.state  : State<F, T>
    hist,       \* calls made on the duplex since Duplex::new, with results
    rounds,     \* number of poseidon_duplex invocations since Duplex::new
    hashed,     \* <<>> until Hash::hash has consumed the hasher, then <<[message, output]>>
    panicked    \* a call has panicked (index out of bounds)

vars == <<RATE, T, L, S, sponge, state, hist, rounds, hashed, panicked>>

----------------------------------------------------------------------------
(* Bounds of the model *)

MaxRate == 3        \* RATE ranges over 1..MaxRate
MaxCapacity == 2    \* T - RATE ranges over 1..MaxCapacity
MaxL == 3           \* L ranges over 0..MaxL
MaxVal == 1         \* absorbed field elements range over 0..MaxVal
MaxOps == 4         \* calls made on one duplex
MaxSteps == 5       \* absorb calls and iterations of the loop of squeeze on one duplex

----------------------------------------------------------------------------
(* The field F: FieldExt, scaled down to a small prime field *)

P == 7

F == 0 .. (P - 1)

Fadd(a, b) == (a + b) % P

Fmul(a, b) == (a * b) % P

\* 2^64 reduced into the field, by six squarings of 2 (the u128 value
\* (L as u128) << 64 itself does not overflow for L < 2^64)
Sq(x) == Fmul(x, x)

TwoPow64 == Sq(Sq(Sq(Sq(Sq(Sq(2 % P))))))

\* Option<F>::None
None == -1

\* 0-based read of a sequence
At(s, i) == s[i + 1]

\* [x; n]
Repeat(x, n) == [i \in 1 .. n |-> x]

Min(a, b) == IF a <= b THEN a ELSE b

----------------------------------------------------------------------------
(* Spec: round numbers, S-box and constants *)

\* P128Pow5T3-like specification, scaled down
full_rounds == S.full_rounds

partial_rounds == S.partial_rounds

\* sbox(val) = val^5
sbox(val) == Fmul(Fmul(Fmul(val, val), Fmul(val, val)), val)

\* grain.next_field_element(): the n-th element of the generator stream (n from 0)
next_field_element(n) == (n * n + 2 * n + 3) % P

\* mds::generate_mds: a T x T matrix of non-zero field elements
generate_mds(t) == [i \in 1 .. t |-> [j \in 1 .. t |-> 1 + ((i + 2 * j) % (P - 1))]]

\* constants() filling the table column by column: lane i of every round is
\* drawn before lane i + 1 of any round
constants_column_major(t) ==
    LET r_f == full_rounds
        r_p == partial_rounds
        round_constants ==
            [k \in 1 .. (r_f + r_p) |->
                [i \in 1 .. t |-> next_field_element((i - 1) * (r_f + r_p) + (k - 1))]]
    IN  [round_constants |-> round_constants, mds |-> generate_mds(t),
         grain |-> (r_f + r_p) * t]

\* Spec::constants(): (round_constants, mds); `grain` is the number of elements
\* already drawn from the generator when it is passed on to mds::generate_mds
constants(t) ==
    LET r_f == full_rounds
        r_p == partial_rounds
        round_constants ==
            [k \in 1 .. (r_f + r_p) |->
                [i \in 1 .. t |-> next_field_element((k - 1) * t + (i - 1))]]
    IN  [round_constants |-> round_constants, mds |-> generate_mds(t),
         grain |-> (r_f + r_p) * t]

\* a Spec whose constants() is overridden with a hard-coded table of n rows
hard_coded_constants(t, n) ==
    [round_constants |->
        [k \in 1 .. n |-> [i \in 1 .. t |-> next_field_element((k - 1) * t + (i - 1))]],
     mds |-> generate_mds(t)]

\* spec.constants(): the default implementation unless the Spec overrides it
Spec_constants(t) ==
    IF S.hard_coded = None THEN constants(t) ELSE hard_coded_constants(t, S.hard_coded)

----------------------------------------------------------------------------
(* permute *)

RECURSIVE SumTo(_, _, _)
SumTo(row, st, j) ==
    IF j = 0 THEN 0 ELSE Fadd(SumTo(row, st, j - 1), Fmul(row[j], st[j]))

apply_mds(st, mds) == [i \in 1 .. Len(st) |-> SumTo(mds[i], st, Len(st))]

\* a full round adding the round constant after the S-box
full_round_add_after_sbox(st, rcs, mds) ==
    apply_mds([i \in 1 .. Len(st) |->
                  IF i <= Len(rcs) THEN Fadd(sbox(st[i]), rcs[i]) ELSE st[i]], mds)

full_round(st, rcs, mds) ==
    apply_mds([i \in 1 .. Len(st) |->
                  IF i <= Len(rcs) THEN sbox(Fadd(st[i], rcs[i])) ELSE st[i]], mds)

\* a partial round applying the S-box to lane 0 before the constants are added
part_round_sbox_first(st, rcs, mds) ==
    LET boxed == [st EXCEPT ![1] = sbox(st[1])]
        added == [i \in 1 .. Len(st) |->
                     IF i <= Len(rcs) THEN Fadd(boxed[i], rcs[i]) ELSE boxed[i]]
    IN  apply_mds(added, mds)

part_round(st, rcs, mds) ==
    LET added == [i \in 1 .. Len(st) |->
                     IF i <= Len(rcs) THEN Fadd(st[i], rcs[i]) ELSE st[i]]
        boxed == [added EXCEPT ![1] = sbox(added[1])]
    IN  apply_mds(boxed, mds)

\* the chained iterator with the partial rounds first
schedule_partial_first ==
    LET r_f == full_rounds \div 2
        r_p == partial_rounds
    IN  Repeat("part", r_p) \o Repeat("full", r_f) \o Repeat("full", r_f)

\* the chained iterator with full_rounds / 2 rounded up
schedule_round_up ==
    LET r_f == (full_rounds + 1) \div 2
        r_p == partial_rounds
    IN  Repeat("full", r_f) \o Repeat("part", r_p) \o Repeat("full", r_f)

\* the chained iterator: r_f full, r_p partial, r_f full
schedule ==
    LET r_f == full_rounds \div 2
        r_p == partial_rounds
    IN  Repeat("full", r_f) \o Repeat("part", r_p) \o Repeat("full", r_f)

\* .zip(round_constants.iter()).fold(state, ...): the first n rounds applied
RECURSIVE fold_rounds(_, _, _, _)
fold_rounds(st, mds, round_constants, n) ==
    IF n = 0 THEN st
    ELSE LET prev == fold_rounds(st, mds, round_constants, n - 1)
         IN  IF schedule[n] = "full"
             THEN full_round(prev, round_constants[n], mds)
             ELSE part_round(prev, round_constants[n], mds)

permute(st, mds, round_constants) ==
    fold_rounds(st, mds, round_constants, Min(Len(schedule), Len(round_constants)))

\* the calls of the round closures the fold makes, in order: the closure, the
\* index of the row of round_constants it was given, and the state it left
permute_rounds(st, mds, round_constants) ==
    [k \in 1 .. Min(Len(schedule), Len(round_constants)) |->
        [op |-> schedule[k], v |-> k - 1,
         state |-> fold_rounds(st, mds, round_constants, k), rounds |-> 0]]

----------------------------------------------------------------------------
(* Domain: ConstantLength<L> *)

\* (L as u128) << 64, as the two 64-bit halves of the u128 (L < 2^64)
shl64(l) == [hi |-> l, lo |-> 0]

\* F::from_u128: hi * 2^64 + lo reduced into the field
from_u128(x) == Fadd(Fmul(x.hi % P, TwoPow64), x.lo % P)

\* the capacity value with the output length o = 1 in the low half instead of o - 1
initial_capacity_element_output_len(l) == from_u128([hi |-> l, lo |-> 1])

initial_capacity_element(l) == from_u128(shl64(l))

\* padding that starts one slot early, at index L - 1
padding_from_previous(l, rate) == [i \in 1 .. rate |-> IF i >= l THEN 0 ELSE None]

padding(l, rate) == [i \in 1 .. rate |-> IF i > l THEN 0 ELSE None]

\* the folding rule reaching one lane past the rate portion: the last slot of
\* the buffer is also added into the capacity lane
pad_and_add_into_capacity(st, input) ==
    [i \in 1 .. Len(st) |->
        IF i <= Len(input) /\ input[i] # None THEN Fadd(st[i], input[i])
        ELSE IF i = Len(input) + 1 /\ Len(input) > 0 /\ input[Len(input)] # None
             THEN Fadd(st[i], input[Len(input)])
             ELSE st[i]]

\* the folding rule overwriting the lane with the buffer value instead of adding
pad_and_add_overwrite(st, input) ==
    [i \in 1 .. Len(st) |->
        IF i <= Len(input) /\ input[i] # None THEN input[i] ELSE st[i]]

pad_and_add(st, input) ==
    [i \in 1 .. Len(st) |->
        IF i <= Len(input) /\ input[i] # None THEN Fadd(st[i], input[i]) ELSE st[i]]

----------------------------------------------------------------------------
(* The duplex sponge *)

mds_matrix == Spec_constants(T).mds

round_constants == Spec_constants(T).round_constants

\* poseidon_duplex permuting before the input is folded in
poseidon_duplex_permute_first(st, input) ==
    LET permuted == pad_and_add(permute(st, mds_matrix, round_constants), input)
    IN  [state  |-> permuted,
         output |-> [i \in 1 .. Len(input) |->
                        IF i <= Len(permuted) THEN permuted[i] ELSE None]]

\* poseidon_duplex handing out the lanes as they were before the permutation
poseidon_duplex_stale_output(st, input) ==
    LET added == pad_and_add(st, input)
        permuted == permute(added, mds_matrix, round_constants)
    IN  [state  |-> permuted,
         output |-> [i \in 1 .. Len(input) |->
                        IF i <= Len(added) THEN added[i] ELSE None]]

poseidon_duplex(st, input) ==
    LET permuted == permute(pad_and_add(st, input), mds_matrix, round_constants)
    IN  [state  |-> permuted,
         output |-> [i \in 1 .. Len(input) |->
                        IF i <= Len(permuted) THEN permuted[i] ELSE None]]

Absorbing(buf) == [mode |-> "Absorbing", buf |-> buf]

Squeezing(buf) == [mode |-> "Squeezing", buf |-> buf]

\* Sponge::absorb indexing input[1] instead of input[0]
Sponge_absorb_panics_slot1(rate) == ~(1 < rate)

\* Sponge::absorb: input[0] = Some(val) is out of bounds when RATE = 0
Sponge_absorb_panics(rate) == ~(0 < rate)

\* Sponge::absorb writing the value into the last slot of the new buffer
Sponge_absorb_last_slot(val, rate) ==
    Absorbing([i \in 1 .. rate |-> IF i = rate THEN val ELSE None])

\* Sponge::absorb(val)
Sponge_absorb(val, rate) ==
    Absorbing([i \in 1 .. rate |-> IF i = 1 THEN val ELSE None])

\* Duplex::new with the capacity element written to the last lane, T - 1
Duplex_new_last_lane(cap, t, rate) ==
    [sponge |-> Absorbing(Repeat(None, rate)),
     state  |-> [i \in 1 .. t |-> IF i = t THEN cap ELSE 0],
     rounds |-> 0,
     panic  |-> ~(rate < t)]

\* Duplex::new(spec, initial_capacity_element, pad_and_add); `rounds` counts the
\* poseidon_duplex invocations made on this duplex
Duplex_new(cap, t, rate) ==
    [sponge |-> Absorbing(Repeat(None, rate)),
     state  |-> [i \in 1 .. t |-> IF i = rate + 1 THEN cap ELSE 0],
     rounds |-> 0,
     panic  |-> ~(rate < t)]

\* the last unset slot instead of the first
FirstNone_last(buf) == CHOOSE i \in 1 .. Len(buf) :
                           buf[i] = None /\ \A j \in (i + 1) .. Len(buf) : buf[j] # None

\* for entry in input.iter_mut() { if entry.is_none() {...} }: the first unset slot
FirstNone(buf) == CHOOSE i \in 1 .. Len(buf) :
                      buf[i] = None /\ \A j \in 1 .. (i - 1) : buf[j] # None

\* the last set slot instead of the first
FirstSome_last(buf) == CHOOSE i \in 1 .. Len(buf) :
                           buf[i] # None /\ \A j \in (i + 1) .. Len(buf) : buf[j] = None

\* for entry in output.iter_mut() { if let Some(e) = entry.take() {...} }: the first set slot
FirstSome(buf) == CHOOSE i \in 1 .. Len(buf) :
                      buf[i] # None /\ \A j \in 1 .. (i - 1) : buf[j] = None

\* Duplex::absorb whose overflow path overwrites slot 0 of the full buffer
\* instead of starting a fresh one
Duplex_absorb_keep_buffer(d, value) ==
    IF d.sponge.mode = "Absorbing"
    THEN IF \E i \in 1 .. Len(d.sponge.buf) : d.sponge.buf[i] = None
         THEN [d EXCEPT !.sponge =
                  Absorbing([d.sponge.buf EXCEPT ![FirstNone(d.sponge.buf)] = value])]
         ELSE [sponge |-> Absorbing([d.sponge.buf EXCEPT ![1] = value]),
               state  |-> poseidon_duplex(d.state, d.sponge.buf).state,
               rounds |-> d.rounds + 1,
               panic  |-> Sponge_absorb_panics(Len(d.sponge.buf))]
    ELSE [sponge |-> Sponge_absorb(value, Len(d.sponge.buf)),
          state  |-> d.state,
          rounds |-> d.rounds,
          panic  |-> Sponge_absorb_panics(Len(d.sponge.buf))]

\* Duplex::absorb running the duplex round as soon as the buffer fills up
Duplex_absorb_eager(d, value) ==
    IF d.sponge.mode = "Absorbing"
    THEN LET filled == [d.sponge.buf EXCEPT ![FirstNone(d.sponge.buf)] = value]
         IN  IF \E i \in 1 .. Len(filled) : filled[i] = None
             THEN [d EXCEPT !.sponge = Absorbing(filled)]
             ELSE [sponge |-> Absorbing(Repeat(None, Len(filled))),
                   state  |-> poseidon_duplex(d.state, filled).state,
                   rounds |-> d.rounds + 1,
                   panic  |-> FALSE]
    ELSE [sponge |-> Sponge_absorb(value, Len(d.sponge.buf)),
          state  |-> d.state,
          rounds |-> d.rounds,
          panic  |-> Sponge_absorb_panics(Len(d.sponge.buf))]

\* Duplex::absorb treating Squeezing mode like a full input buffer: one more round
Duplex_absorb_squeezing_permutes(d, value) ==
    IF d.sponge.mode = "Absorbing" /\ \E i \in 1 .. Len(d.sponge.buf) : d.sponge.buf[i] = None
    THEN [d EXCEPT !.sponge =
             Absorbing([d.sponge.buf EXCEPT ![FirstNone(d.sponge.buf)] = value])]
    ELSE [sponge |-> Sponge_absorb(value, Len(d.sponge.buf)),
          state  |-> poseidon_duplex(d.state, d.sponge.buf).state,
          rounds |-> d.rounds + 1,
          panic  |-> Sponge_absorb_panics(Len(d.sponge.buf))]

\* Duplex::absorb keeping the unread output of Squeezing mode in the new buffer
Duplex_absorb_keeps_output(d, value) ==
    IF d.sponge.mode = "Absorbing"
    THEN IF \E i \in 1 .. Len(d.sponge.buf) : d.sponge.buf[i] = None
         THEN [d EXCEPT !.sponge =
                  Absorbing([d.sponge.buf EXCEPT ![FirstNone(d.sponge.buf)] = value])]
         ELSE [sponge |-> Sponge_absorb(value, Len(d.sponge.buf)),
               state  |-> poseidon_duplex(d.state, d.sponge.buf).state,
               rounds |-> d.rounds + 1,
               panic  |-> Sponge_absorb_panics(Len(d.sponge.buf))]
    ELSE [d EXCEPT !.sponge = Absorbing([d.sponge.buf EXCEPT ![1] = value])]

\* Duplex::absorb dropping a full buffer: the overflow path starts the new
\* buffer without running the duplex round
Duplex_absorb_overflow_no_round(d, value) ==
    IF d.sponge.mode = "Absorbing" /\ \E i \in 1 .. Len(d.sponge.buf) : d.sponge.buf[i] = None
    THEN [d EXCEPT !.sponge =
             Absorbing([d.sponge.buf EXCEPT ![FirstNone(d.sponge.buf)] = value])]
    ELSE [sponge |-> Sponge_absorb(value, Len(d.sponge.buf)),
          state  |-> d.state,
          rounds |-> d.rounds,
          panic  |-> Sponge_absorb_panics(Len(d.sponge.buf))]

\* Duplex::absorb(&mut self, value)
Duplex_absorb(d, value) ==
    IF d.sponge.mode = "Absorbing"
    THEN IF \E i \in 1 .. Len(d.sponge.buf) : d.sponge.buf[i] = None
         THEN [d EXCEPT !.sponge =
                  Absorbing([d.sponge.buf EXCEPT ![FirstNone(d.sponge.buf)] = value])]
         ELSE [sponge |-> Sponge_absorb(value, Len(d.sponge.buf)),
               state  |-> poseidon_duplex(d.state, d.sponge.buf).state,
               rounds |-> d.rounds + 1,
               panic  |-> Sponge_absorb_panics(Len(d.sponge.buf))]
    ELSE [sponge |-> Sponge_absorb(value, Len(d.sponge.buf)),
          state  |-> d.state,
          rounds |-> d.rounds,
          panic  |-> Sponge_absorb_panics(Len(d.sponge.buf))]

\* Duplex::squeeze refilling an exhausted output buffer from the state as it is,
\* with no second permutation
RECURSIVE squeeze_loop_repeat(_, _)
squeeze_loop_repeat(d, n_iters) ==
    IF d.sponge.mode = "Absorbing"
    THEN LET r == poseidon_duplex(d.state, d.sponge.buf)
         IN  squeeze_loop_repeat([d EXCEPT !.sponge = Squeezing(r.output),
                                           !.state = r.state,
                                           !.rounds = d.rounds + 1], n_iters + 1)
    ELSE IF \E i \in 1 .. Len(d.sponge.buf) : d.sponge.buf[i] # None
         THEN [duplex |-> [d EXCEPT !.sponge =
                              Squeezing([d.sponge.buf EXCEPT ![FirstSome(d.sponge.buf)] = None])],
               ret    |-> d.sponge.buf[FirstSome(d.sponge.buf)],
               iters  |-> n_iters + 1]
         ELSE squeeze_loop_repeat(
                  [d EXCEPT !.sponge = Squeezing([i \in 1 .. Len(d.sponge.buf) |-> d.state[i]])],
                  n_iters + 1)

\* the body of the loop with an exhausted output buffer answered from lane 0 of
\* the state instead of going back to Absorbing mode
squeeze_iteration_returns_lane0(d) ==
    IF d.sponge.mode = "Absorbing"
    THEN LET r == poseidon_duplex(d.state, d.sponge.buf)
         IN  [duplex |-> [d EXCEPT !.sponge = Squeezing(r.output),
                                   !.state = r.state,
                                   !.rounds = d.rounds + 1],
              done   |-> FALSE,
              ret    |-> None]
    ELSE IF \E i \in 1 .. Len(d.sponge.buf) : d.sponge.buf[i] # None
         THEN [duplex |-> [d EXCEPT !.sponge =
                              Squeezing([d.sponge.buf EXCEPT ![FirstSome(d.sponge.buf)] = None])],
               done   |-> TRUE,
               ret    |-> d.sponge.buf[FirstSome(d.sponge.buf)]]
         ELSE [duplex |-> d,
               done   |-> TRUE,
               ret    |-> d.state[1]]

\* the body of the loop of Duplex::squeeze, run once: `done` when it returns
\* `ret`, otherwise the loop goes round again
squeeze_iteration(d) ==
    IF d.sponge.mode = "Absorbing"
    THEN LET r == poseidon_duplex(d.state, d.sponge.buf)
         IN  [duplex |-> [d EXCEPT !.sponge = Squeezing(r.output),
                                   !.state = r.state,
                                   !.rounds = d.rounds + 1],
              done   |-> FALSE,
              ret    |-> None]
    ELSE IF \E i \in 1 .. Len(d.sponge.buf) : d.sponge.buf[i] # None
         THEN [duplex |-> [d EXCEPT !.sponge =
                              Squeezing([d.sponge.buf EXCEPT ![FirstSome(d.sponge.buf)] = None])],
               done   |-> TRUE,
               ret    |-> d.sponge.buf[FirstSome(d.sponge.buf)]]
         ELSE [duplex |-> [d EXCEPT !.sponge = Absorbing(Repeat(None, Len(d.sponge.buf)))],
               done   |-> FALSE,
               ret    |-> None]

\* the loop of Duplex::squeeze, one unfolding per iteration
RECURSIVE squeeze_loop(_, _)
squeeze_loop(d, n_iters) ==
    LET it == squeeze_iteration(d)
    IN  IF it.done
        THEN [duplex |-> it.duplex, ret |-> it.ret, iters |-> n_iters + 1]
        ELSE squeeze_loop(it.duplex, n_iters + 1)

\* Duplex::squeeze(&mut self) -> F
Duplex_squeeze(d) == squeeze_loop(d, 0)

----------------------------------------------------------------------------
(* Hash *)

\* Hash::init(spec, domain)
Hash_init(l, t, rate) == Duplex_new(initial_capacity_element(l), t, rate)

\* one call on the duplex as recorded in hist: the operation, its argument (absorb)
\* or result (squeeze), and the permutation state and round count it left
Call(op, v, d) == [op |-> op, v |-> v, state |-> d.state, rounds |-> d.rounds]

\* for value in message { self.duplex.absorb(value) }: the first n elements absorbed
RECURSIVE absorb_all(_, _, _)
absorb_all(d, message, n) ==
    IF n = 0 THEN [duplex |-> d, calls |-> <<>>]
    ELSE LET prev == absorb_all(d, message, n - 1)
             next == Duplex_absorb(prev.duplex, message[n])
         IN  [duplex |-> next,
              calls  |-> Append(prev.calls, Call("absorb", message[n], next))]

\* Hash::hash squeezing before the last element of the message is absorbed
Hash_hash_early_squeeze(d, message) ==
    LET n == IF Len(message) = 0 THEN 0 ELSE Len(message) - 1
        absorbed == absorb_all(d, message, n)
        squeezed == Duplex_squeeze(absorbed.duplex)
    IN  [duplex |-> squeezed.duplex,
         calls  |-> Append(absorbed.calls, Call("squeeze", squeezed.ret, squeezed.duplex)),
         output |-> squeezed.ret]

\* the first n elements of the message absorbed last to first
RECURSIVE absorb_all_reversed(_, _, _)
absorb_all_reversed(d, message, n) ==
    IF n = 0 THEN [duplex |-> d, calls |-> <<>>]
    ELSE LET prev == absorb_all_reversed(d, message, n - 1)
             value == message[Len(message) + 1 - n]
             next == Duplex_absorb(prev.duplex, value)
         IN  [duplex |-> next,
              calls  |-> Append(prev.calls, Call("absorb", value, next))]

\* Hash::hash absorbing the message in reverse order
Hash_hash_reversed(d, message) ==
    LET absorbed == absorb_all_reversed(d, message, Len(message))
        squeezed == Duplex_squeeze(absorbed.duplex)
    IN  [duplex |-> squeezed.duplex,
         calls  |-> Append(absorbed.calls, Call("squeeze", squeezed.ret, squeezed.duplex)),
         output |-> squeezed.ret]

\* Hash::hash(self, message) -> F
Hash_hash(d, message) ==
    LET absorbed == absorb_all(d, message, Len(message))
        squeezed == Duplex_squeeze(absorbed.duplex)
    IN  [duplex |-> squeezed.duplex,
         calls  |-> Append(absorbed.calls, Call("squeeze", squeezed.ret, squeezed.duplex)),
         output |-> squeezed.ret]

----------------------------------------------------------------------------
(* The state machine *)

Vals == 0 .. MaxVal

\* the well-formed specification: even full_rounds, default constants()
Specs == {[full_rounds |-> 2, partial_rounds |-> 1, hard_coded |-> None]}

\* specifications that break the contract of Spec: an odd full_rounds, and
\* hard-coded round-constant tables one row short and one row long
MalformedSpecs ==
    {[full_rounds |-> 3, partial_rounds |-> 1, hard_coded |-> None],
     [full_rounds |-> 2, partial_rounds |-> 1, hard_coded |-> 2],
     [full_rounds |-> 2, partial_rounds |-> 1, hard_coded |-> 4]}

duplex == [sponge |-> sponge, state |-> state, rounds |-> rounds, panic |-> panicked]

\* Hash::init(spec, domain) for a spec among `specs`
InitOf(specs) ==
    /\ RATE \in 1 .. MaxRate
    /\ T \in (RATE + 1) .. (RATE + MaxCapacity)
    /\ L \in 0 .. MaxL
    /\ S \in specs
    /\ sponge = Hash_init(L, T, RATE).sponge
    /\ state = Hash_init(L, T, RATE).state
    /\ rounds = Hash_init(L, T, RATE).rounds
    /\ panicked = Hash_init(L, T, RATE).panic
    /\ hist = <<>>
    /\ hashed = <<>>

Init == InitOf(Specs)

\* a client calls Duplex::absorb
Absorb ==
    /\ hashed = <<>> /\ ~panicked /\ Len(hist) < MaxOps
    /\ \E value \in Vals :
        LET r == Duplex_absorb(duplex, value)
        IN  /\ sponge' = r.sponge
            /\ state' = r.state
            /\ rounds' = r.rounds
            /\ panicked' = r.panic
            /\ hist' = Append(hist, Call("absorb", value, r))
    /\ UNCHANGED <<RATE, T, L, S, hashed>>

\* a client calls Duplex::squeeze
Squeeze ==
    /\ hashed = <<>> /\ ~panicked /\ Len(hist) < MaxOps
    /\ LET r == Duplex_squeeze(duplex)
       IN  /\ sponge' = r.duplex.sponge
           /\ state' = r.duplex.state
           /\ rounds' = r.duplex.rounds
           /\ panicked' = r.duplex.panic
           /\ hist' = Append(hist, Call("squeeze", r.ret, r.duplex))
    /\ UNCHANGED <<RATE, T, L, S, hashed>>

\* a client calls Hash::hash on the fresh hasher, which consumes it
Hash ==
    /\ hashed = <<>> /\ ~panicked /\ hist = <<>>
    /\ \E message \in [1 .. L -> Vals] :
        LET r == Hash_hash(duplex, message)
        IN  /\ sponge' = r.duplex.sponge
            /\ state' = r.duplex.state
            /\ rounds' = r.duplex.rounds
            /\ panicked' = r.duplex.panic
            /\ hist' = r.calls
            /\ hashed' = <<[message |-> message, output |-> r.output]>>
    /\ UNCHANGED <<RATE, T, L, S>>

Next == Absorb \/ Squeeze \/ Hash

Spec == Init /\ [][Next]_vars

\* the same hasher built for a specification that breaks the contract of Spec
InitMalformed == InitOf(MalformedSpecs)

SpecMalformed == InitMalformed /\ [][Next]_vars

----------------------------------------------------------------------------
(* The functions of the ConstantLength domain, applied to arbitrary inputs *)

\* permutation states the folding rule is applied to: small lanes and lanes
\* near the modulus
DomainStates(t) == {[i \in 1 .. t |-> i % P], [i \in 1 .. t |-> (P - i) % P]}

\* every RATE-slot buffer of set and unset slots
DomainBuffers(rate) == [1 .. rate -> Vals \cup {None}]

InitDomain ==
    /\ RATE \in 1 .. MaxRate
    /\ T \in (RATE + 1) .. (RATE + MaxCapacity)
    /\ L \in 0 .. MaxL
    /\ S \in Specs
    /\ sponge \in {Absorbing(buf) : buf \in DomainBuffers(RATE)}
    /\ state \in DomainStates(T)
    /\ rounds = 0
    /\ panicked = FALSE
    /\ hist = <<>>
    /\ hashed = <<>>

\* (domain.pad_and_add())(&mut state, &input); hist keeps the state it was given
PadAndAdd ==
    /\ hist = <<>>
    /\ state' = pad_and_add(state, sponge.buf)
    /\ hist' = <<Call("pad_and_add", None, duplex)>>
    /\ UNCHANGED <<RATE, T, L, S, sponge, rounds, hashed, panicked>>

\* domain.padding(); the buffer it returns replaces sponge.buf
Padding ==
    /\ hist = <<>>
    /\ sponge' = Absorbing(padding(L, RATE))
    /\ hist' = <<Call("padding", None, duplex)>>
    /\ UNCHANGED <<RATE, T, L, S, state, rounds, hashed, panicked>>

NextDomain == PadAndAdd \/ Padding

SpecDomain == InitDomain /\ [][NextDomain]_vars

----------------------------------------------------------------------------
(* The duplex with Duplex::squeeze taken one loop iteration at a time, and   *)
(* with RATE = 0 among the rates                                             *)

InitSqueeze ==
    /\ RATE \in 0 .. MaxRate
    /\ T \in (RATE + 1) .. (RATE + MaxCapacity)
    /\ L \in {0, MaxL}
    /\ S \in Specs
    /\ sponge = Hash_init(L, T, RATE).sponge
    /\ state = Hash_init(L, T, RATE).state
    /\ rounds = Hash_init(L, T, RATE).rounds
    /\ panicked = Hash_init(L, T, RATE).panic
    /\ hist = <<>>
    /\ hashed = <<>>

\* a call of Duplex::squeeze is inside its loop: the last iteration did not return
InCall == hist # <<>> /\ hist[Len(hist)].op = "iter"

\* a client calls Duplex::absorb, when no call of squeeze is running
AbsorbBetweenCalls == ~InCall /\ Absorb

\* one iteration of the loop of Duplex::squeeze: the first one of a call, or
\* the next one of the call that is running; logged as "squeeze" with the value
\* when it returns and as "iter" when the loop goes round again
SqueezeIteration ==
    /\ hashed = <<>> /\ ~panicked /\ Len(hist) < MaxSteps
    /\ LET it == squeeze_iteration(duplex)
       IN  /\ sponge' = it.duplex.sponge
           /\ state' = it.duplex.state
           /\ rounds' = it.duplex.rounds
           /\ panicked' = it.duplex.panic
           /\ hist' = Append(hist, Call(IF it.done THEN "squeeze" ELSE "iter",
                                        it.ret, it.duplex))
    /\ UNCHANGED <<RATE, T, L, S, hashed>>

NextSqueeze == AbsorbBetweenCalls \/ SqueezeIteration

SpecSqueeze == InitSqueeze /\ [][NextSqueeze]_vars

----------------------------------------------------------------------------
(* permute, applied to arbitrary states under well-formed and malformed specs *)

\* a second well-formed specification with more than one round of each kind,
\* next to the specifications above
PermuteSpecs ==
    Specs \cup MalformedSpecs
          \cup {[full_rounds |-> 4, partial_rounds |-> 2, hard_coded |-> None]}

InitPermute ==
    /\ RATE \in 1 .. MaxRate
    /\ T \in (RATE + 1) .. (RATE + MaxCapacity)
    /\ L = 0
    /\ S \in PermuteSpecs
    /\ sponge = Absorbing(Repeat(None, RATE))
    /\ state \in [1 .. T -> Vals]
    /\ rounds = 0
    /\ panicked = FALSE
    /\ hist = <<>>
    /\ hashed = <<>>

\* permute::<F, S, T, RATE>(&mut state, &mds_matrix, &round_constants); hist keeps
\* the state it was given, then the rounds it applied
Permute ==
    /\ hist = <<>>
    /\ state' = permute(state, mds_matrix, round_constants)
    /\ hist' = <<Call("permute", None, duplex)>>
                   \o permute_rounds(state, mds_matrix, round_constants)
    /\ UNCHANGED <<RATE, T, L, S, sponge, rounds, hashed, panicked>>

NextPermute == Permute

SpecPermute == InitPermute /\ [][NextPermute]_vars

----------------------------------------------------------------------------
(* Vocabulary of the properties *)

Last(h) == h[Len(h)]

\* the step is one call of Duplex::absorb, resp. Duplex::squeeze
AbsorbStep == Len(hist') = Len(hist) + 1 /\ Last(hist').op = "absorb"

SqueezeStep == Len(hist') = Len(hist) + 1 /\ Last(hist').op = "squeeze"

FullySet(buf) == \A i \in 1 .. Len(buf) : buf[i] # None

AllUnset(buf) == \A i \in 1 .. Len(buf) : buf[i] = None

\* a RATE-slot buffer holding v in slot 0 and nothing else
OnlySlot0(v) == [i \in 1 .. RATE |-> IF i = 1 THEN v ELSE None]

\* the state with the set slots of buf added into the rate lanes
Folded(st, buf) ==
    [i \in 1 .. T |-> IF i <= RATE /\ buf[i] # None THEN (st[i] + buf[i]) % P ELSE st[i]]

Permuted(st) == permute(st, mds_matrix, round_constants)

\* the state with v added to lane 0
AddedToLane0(st, v) == [st EXCEPT ![1] = (st[1] + v) % P]

\* the state Duplex::new builds
InitialState ==
    [i \in 1 .. T |-> IF i = RATE + 1 THEN initial_capacity_element(L) ELSE 0]

\* the number of duplex rounds call n of hist ran
RoundsOf(n) == hist[n].rounds - (IF n = 1 THEN 0 ELSE hist[n - 1].rounds)

\* for a squeeze call n: its position k >= 1 among the consecutive squeezes that
\* read the output of one duplex round (k = 1 for the squeeze that ran the round)
RECURSIVE SqueezeIndex(_)
SqueezeIndex(n) ==
    IF n = 1 \/ RoundsOf(n) >= 1 \/ hist[n - 1].op # "squeeze"
    THEN 1
    ELSE 1 + SqueezeIndex(n - 1)

\* [m_0, ..., m_{L-1}, 0, ..., 0, capacity, 0...]
DirectState(message) ==
    [i \in 1 .. T |->
        IF i <= Len(message) THEN message[i]
        ELSE IF i = RATE + 1 THEN initial_capacity_element(L) ELSE 0]

----------------------------------------------------------------------------
\* C1: for L <= RATE and T = RATE + 1, Hash::init(spec, domain).hash(message) is
\* lane 0 of one permutation of [m_0, ..., m_{L-1}, 0, ..., 0, capacity].
C1_DirectConstruction ==
    (hashed # <<>> /\ L <= RATE /\ T = RATE + 1) =>
        hashed[1].output = At(Permuted(DirectState(hashed[1].message)), 0)

C1_Witness ==
    /\ hashed # <<>> /\ L = 2 /\ RATE = 2 /\ T = 3
    /\ hashed[1].message = <<1, 0>>

\* C2: absorb in Absorbing mode with an unset slot writes the value into the
\* lowest-index unset slot and changes nothing else: the other slots, the mode
\* and the permutation state stay, and no permutation runs.
C2_AbsorbFillsFirstUnset ==
    [][(AbsorbStep /\ sponge.mode = "Absorbing" /\ ~FullySet(sponge.buf)) =>
        \E k \in 1 .. RATE :
            /\ sponge.buf[k] = None
            /\ \A j \in 1 .. (k - 1) : sponge.buf[j] # None
            /\ sponge'.mode = "Absorbing"
            /\ sponge'.buf = [i \in 1 .. RATE |->
                                 IF i = k THEN Last(hist').v ELSE sponge.buf[i]]
            /\ state' = state
            /\ rounds' = rounds]_vars

\* the last call was an absorb that filled a slot above slot 0
C2_Witness ==
    /\ hist # <<>> /\ Last(hist).op = "absorb" /\ Last(hist).v = 1
    /\ RATE = 3 /\ sponge.mode = "Absorbing"
    /\ sponge.buf[2] = 1 /\ sponge.buf[3] = None

\* C3: absorb in Absorbing mode with a fully set buffer runs exactly one duplex
\* round (the full buffer folded into the state, then one permutation) and
\* ends in Absorbing mode with the value in slot 0 and every other slot unset:
\* nothing of the round's output is kept as buffered output.
C3_AbsorbOverflow ==
    [][(AbsorbStep /\ sponge.mode = "Absorbing" /\ FullySet(sponge.buf)) =>
        /\ rounds' = rounds + 1
        /\ state' = Permuted(Folded(state, sponge.buf))
        /\ sponge'.mode = "Absorbing"
        /\ sponge'.buf = OnlySlot0(Last(hist').v)]_vars

C3_Witness ==
    /\ RATE = 2 /\ Len(hist) = 3
    /\ \A i \in 1 .. 3 : hist[i].op = "absorb" /\ hist[i].v = 1
    /\ rounds = 1 /\ sponge.buf = <<1, None>>

\* C4: from a fresh duplex, n >= 1 absorbs and no squeeze run exactly
\* floor((n - 1) / RATE) duplex rounds; after RATE + 1 absorbs the state is one
\* permutation of the initial state with the first RATE elements folded in, and
\* element RATE + 1 waits in slot 0 of the Absorbing buffer.
C4_AbsorbRounds ==
    (hist # <<>> /\ \A i \in 1 .. Len(hist) : hist[i].op = "absorb") =>
        /\ rounds = (Len(hist) - 1) \div RATE
        /\ Len(hist) = RATE + 1 =>
              /\ state = Permuted(Folded(InitialState, [i \in 1 .. RATE |-> hist[i].v]))
              /\ sponge.mode = "Absorbing"
              /\ sponge.buf = OnlySlot0(hist[RATE + 1].v)

C4_Witness ==
    /\ RATE = 3 /\ Len(hist) = 4 /\ L = 1
    /\ \A i \in 1 .. 4 : hist[i].op = "absorb"
    /\ hist[2].v = 1 /\ hist[4].v = 1
    /\ rounds = 1

\* C5: absorb in Squeezing mode, whatever output is still unread, switches to
\* Absorbing with the value in slot 0 and every other slot unset, runs no
\* permutation and leaves the state unchanged; the squeeze that follows reads
\* none of the dropped output: it runs a duplex round of its own and returns
\* lane 0 of the state that round leaves.
C5_AbsorbWhileSqueezing ==
    /\ [][(AbsorbStep /\ sponge.mode = "Squeezing") =>
            /\ sponge'.mode = "Absorbing"
            /\ sponge'.buf = OnlySlot0(Last(hist').v)
            /\ state' = state
            /\ rounds' = rounds]_vars
    /\ [](\A n \in 3 .. Len(hist) :
            (hist[n].op = "squeeze" /\ hist[n - 1].op = "absorb"
                /\ hist[n - 2].op = "squeeze") =>
                (RoundsOf(n) = 1 /\ hist[n].v = At(hist[n].state, 0)))

C5_Witness ==
    /\ RATE = 3 /\ Len(hist) = 3
    /\ hist[1].op = "squeeze" /\ hist[2].op = "absorb" /\ hist[3].op = "squeeze"
    /\ hist[2].v = 1

\* C6: squeeze in Absorbing mode runs exactly one duplex round on the current
\* buffer (fold, then permute), switches to Squeezing with the first RATE lanes
\* of the permuted state as output buffer, and returns lane 0 of it, leaving
\* slot 0 unset and slots 1 .. RATE - 1 set.
C6_SqueezeFromAbsorbing ==
    [][(SqueezeStep /\ sponge.mode = "Absorbing") =>
        LET permuted == Permuted(Folded(state, sponge.buf))
        IN  /\ rounds' = rounds + 1
            /\ state' = permuted
            /\ Last(hist').v = At(permuted, 0)
            /\ sponge'.mode = "Squeezing"
            /\ At(sponge'.buf, 0) = None
            /\ \A i \in 1 .. (RATE - 1) : At(sponge'.buf, i) = At(permuted, i)]_vars

C6_Witness ==
    /\ RATE = 3 /\ Len(hist) = 3
    /\ hist[1].op = "absorb" /\ hist[2].op = "absorb" /\ hist[3].op = "squeeze"
    /\ hist[1].v = 1 /\ hist[2].v = 1
    /\ sponge.mode = "Squeezing" /\ At(sponge.buf, 0) = None /\ At(sponge.buf, 2) # None

\* C7: squeeze in Squeezing mode with a set slot returns the value of the
\* lowest-index set slot and clears exactly that slot, with no permutation and
\* no change to the state; so the k-th of k <= RATE consecutive squeezes after
\* a duplex round returns lane k - 1 of the state that round left.
C7_SqueezeBuffered ==
    /\ [][(SqueezeStep /\ sponge.mode = "Squeezing" /\ ~AllUnset(sponge.buf)) =>
            \E k \in 1 .. RATE :
                /\ sponge.buf[k] # None
                /\ \A j \in 1 .. (k - 1) : sponge.buf[j] = None
                /\ Last(hist').v = sponge.buf[k]
                /\ sponge'.mode = "Squeezing"
                /\ sponge'.buf = [i \in 1 .. RATE |-> IF i = k THEN None ELSE sponge.buf[i]]
                /\ state' = state
                /\ rounds' = rounds]_vars
    /\ [](\A n \in 1 .. Len(hist) :
            hist[n].op = "squeeze" =>
                LET k == SqueezeIndex(n)
                IN  k <= RATE /\ hist[n].v = At(hist[n - k + 1].state, k - 1))

C7_Witness ==
    /\ RATE = 3 /\ Len(hist) = 4
    /\ hist[1].op = "absorb" /\ hist[1].v = 1
    /\ \A i \in 2 .. 4 : hist[i].op = "squeeze"
    /\ SqueezeIndex(4) = 3 /\ rounds = 1

\* C8: RATE + 1 squeezes in a row, the first of which runs a duplex round, run
\* exactly two rounds: the squeeze that finds the output buffer all unset runs
\* a second round with no input folded in, and returns lane 0 of the state
\* after that second permutation.
C8_ExtendedSqueeze ==
    /\ [][(SqueezeStep /\ sponge.mode = "Squeezing" /\ AllUnset(sponge.buf)) =>
            /\ rounds' = rounds + 1
            /\ state' = Permuted(state)
            /\ Last(hist').v = At(state', 0)
            /\ sponge'.mode = "Squeezing"
            /\ At(sponge'.buf, 0) = None
            /\ \A i \in 1 .. (RATE - 1) : At(sponge'.buf, i) = At(state', i)]_vars
    /\ [](\A n \in (RATE + 1) .. Len(hist) :
            ((\A i \in (n - RATE) .. n : hist[i].op = "squeeze")
                /\ RoundsOf(n - RATE) = 1) =>
                /\ hist[n].rounds = hist[n - RATE].rounds + 1
                /\ RoundsOf(n) = 1
                /\ hist[n].state = Permuted(hist[n - RATE].state)
                /\ hist[n].v = At(hist[n].state, 0))

C8_Witness ==
    /\ RATE = 2 /\ Len(hist) = 4
    /\ hist[1].op = "absorb" /\ hist[1].v = 1
    /\ \A i \in 2 .. 4 : hist[i].op = "squeeze"
    /\ rounds = 2

\* C9: for 1 <= j < RATE, after a duplex round, j squeezes, then absorb(v), then
\* one squeeze return lane 0 of the permutation of the state the earlier round
\* left with v added to lane 0: a fresh computation from the state alone, in
\* which the unread slots of the earlier output buffer play no part.
C9_ModeSwitchDiscard ==
    \A n \in 3 .. Len(hist) :
        (/\ hist[n].op = "squeeze"
         /\ hist[n - 1].op = "absorb"
         /\ hist[n - 2].op = "squeeze"
         /\ SqueezeIndex(n - 2) < RATE) =>
            /\ hist[n].state =
                  Permuted(AddedToLane0(hist[n - 1 - SqueezeIndex(n - 2)].state, hist[n - 1].v))
            /\ hist[n].v = At(hist[n].state, 0)
            /\ RoundsOf(n) = 1

C9_Witness ==
    /\ RATE = 3 /\ Len(hist) = 4
    /\ hist[1].op = "squeeze" /\ hist[2].op = "squeeze"
    /\ hist[3].op = "absorb" /\ hist[3].v = 1
    /\ hist[4].op = "squeeze"
    /\ SqueezeIndex(2) = 2

\* C10: Duplex::new leaves the state zero in every lane except lane RATE, which
\* holds the initial capacity element, the mode Absorbing with every slot unset,
\* and no permutation run.
C10_DuplexNew ==
    hist = <<>> =>
        /\ Len(state) = T
        /\ \A i \in 0 .. (T - 1) :
              At(state, i) = IF i = RATE THEN initial_capacity_element(L) ELSE 0
        /\ sponge.mode = "Absorbing"
        /\ Len(sponge.buf) = RATE /\ AllUnset(sponge.buf)
        /\ rounds = 0

C10_Witness ==
    /\ hist = <<>> /\ T = RATE + 2 /\ L = 1
    /\ At(state, RATE) # 0 /\ At(state, T - 1) = 0

----------------------------------------------------------------------------
\* C11: Hash::hash(message) makes exactly L absorb calls, with message[0],
\* ..., message[L-1] in that order, then exactly one squeeze call, and returns
\* the value of that squeeze; no squeeze comes before the last absorb.
C11_HashCallOrder ==
    hashed # <<>> =>
        /\ Len(hashed[1].message) = L
        /\ Len(hist) = L + 1
        /\ \A i \in 0 .. (L - 1) :
              At(hist, i).op = "absorb" /\ At(hist, i).v = At(hashed[1].message, i)
        /\ At(hist, L).op = "squeeze"
        /\ hashed[1].output = At(hist, L).v

C11_Witness ==
    /\ hashed # <<>> /\ L = 3 /\ RATE = 2
    /\ hashed[1].message = <<1, 0, 0>>
    /\ Len(hist) = 4 /\ hist[4].op = "squeeze"

\* C12: the ConstantLength folding rule sets state[i] to state[i] + buffer[i]
\* (field addition) for every rate lane i < RATE whose buffer slot is set.
C12_FoldAdds ==
    (hist # <<>> /\ hist[1].op = "pad_and_add") =>
        \A i \in 0 .. (RATE - 1) :
            At(sponge.buf, i) # None =>
                At(state, i) = (At(hist[1].state, i) + At(sponge.buf, i)) % P

\* a fold with an unset slot between two set ones, lane 0 wrapping around
C12_Witness ==
    /\ hist # <<>> /\ hist[1].op = "pad_and_add"
    /\ RATE = 3 /\ sponge.buf = <<1, None, 1>>
    /\ At(hist[1].state, 0) = P - 1 /\ At(state, 0) = 0
    /\ At(state, 2) = At(hist[1].state, 2) + 1

\* the input of the duplex round a call runs: the Absorbing buffer, or nothing
\* when a squeeze finds the output buffer exhausted
RoundInput ==
    IF sponge.mode = "Absorbing" THEN sponge.buf ELSE [i \in 1 .. RATE |-> None]

\* C13: the folding rule leaves unchanged every lane whose buffer slot is
\* unset and every lane at index >= RATE, the capacity lane among them, for
\* every width T > RATE; over any sequence of absorb and squeeze calls the
\* state changes only in a duplex round, where the lanes from RATE on enter the
\* permutation as they were: folding never touches the capacity lane.
C13_FoldFrame ==
    /\ [](\A i \in 0 .. (T - 1) :
            (i >= RATE \/ At(sponge.buf, i) = None) =>
                At(pad_and_add(state, sponge.buf), i) = At(state, i))
    /\ [][(Len(hist') = Len(hist) + 1) =>
            /\ rounds' = rounds => state' = state
            /\ rounds' # rounds =>
                  /\ rounds' = rounds + 1
                  /\ \A i \in RATE .. (T - 1) :
                        At(pad_and_add(state, RoundInput), i) = At(state, i)
                  /\ state' = Permuted(Folded(state, RoundInput))]_vars

C13_Witness ==
    /\ RATE = 2 /\ T = 4 /\ L = 1 /\ Len(hist) = 3
    /\ hist[1].op = "absorb" /\ hist[1].v = 1
    /\ hist[2].op = "absorb" /\ hist[2].v = 1
    /\ hist[3].op = "absorb"
    /\ rounds = 1 /\ sponge.buf = <<0, None>>

\* 2^64 in the field, from 2^16 = 65536: (2^16)^4
TwoPow64FromPow16 ==
    ((((65536 % P) * (65536 % P)) % P) * (((65536 % P) * (65536 % P)) % P)) % P

\* C14: ConstantLength<L>::initial_capacity_element() is the field element
\* L * 2^64: L in the half above bit 63, the low 64 bits 0 (output length 1,
\* minus 1); it is what Hash::init puts in the capacity lane.
C14_CapacityElement ==
    hist = <<>> =>
        /\ shl64(L) = [hi |-> L, lo |-> 0]
        /\ initial_capacity_element(L) = ((L % P) * TwoPow64FromPow16) % P
        /\ At(state, RATE) = ((L % P) * TwoPow64FromPow16) % P

C14_Witness ==
    /\ hist = <<>> /\ L = 2 /\ RATE = 2 /\ T = 3
    /\ At(state, 2) = (2 * TwoPow64FromPow16) % P
    /\ At(state, 2) # 0

\* C15: ConstantLength<L>::padding() returns a RATE-slot buffer whose slots at
\* index >= L hold the field's zero and whose slots at index < L are unset
\* (all unset when L >= RATE).
C15_Padding ==
    (hist # <<>> /\ hist[1].op = "padding") =>
        /\ Len(sponge.buf) = RATE
        /\ \A i \in 0 .. (RATE - 1) :
              At(sponge.buf, i) = IF i >= L THEN 0 ELSE None
        /\ L >= RATE => AllUnset(sponge.buf)

C15_Witness ==
    /\ hist # <<>> /\ hist[1].op = "padding"
    /\ RATE = 3 /\ L = 1 /\ sponge.buf = <<None, 0, 0>>

\* C16: a round-constant table whose length differs from full_rounds +
\* partial_rounds is rejected at Hash::init or on entry to Hash::hash: no hash
\* value is ever computed and returned for it.
C16_TableLengthFailsFast ==
    (Len(round_constants) # full_rounds + partial_rounds) => hashed = <<>>

\* C17: a specification whose full_rounds() is odd is rejected at Hash::init or
\* on entry to Hash::hash: no hash value is ever computed and returned for it.
C17_OddFullRoundsFailsFast ==
    (full_rounds % 2 = 1) => hashed = <<>>

\* C18: a ConstantLength<L> domain with L > RATE is rejected at Hash::init or on
\* entry to Hash::hash: no hash value is ever computed and returned for it.
C18_LongMessageFailsFast ==
    (L > RATE) => hashed = <<>>

\* C19: for a well-formed specification and domain (RATE >= 1, even
\* full_rounds, as many round constants as rounds) every absorb and squeeze
\* call completes without a panic: the state keeps its T lanes, the buffer its
\* RATE slots, and every squeeze returns a field element.
C19_NoPanic ==
    /\ ~panicked
    /\ Len(state) = T /\ \A i \in 1 .. T : state[i] \in F
    /\ Len(sponge.buf) = RATE
    /\ \A n \in 1 .. Len(hist) : hist[n].v \in F

C19_Witness ==
    /\ ~panicked /\ RATE = 1 /\ T = 2 /\ Len(hist) = MaxOps
    /\ hist[1].op = "absorb" /\ hist[2].op = "absorb" /\ hist[3].op = "squeeze"
    /\ hist[4].op = "absorb"
    /\ full_rounds % 2 = 0 /\ Len(round_constants) = full_rounds + partial_rounds

\* permute has run: hist[1] holds the state it was given and hist[n + 1] the
\* n-th round it applied
PermuteDone == hist # <<>> /\ hist[1].op = "permute"

RoundsApplied == Len(hist) - 1

\* val^5 over the integers, reduced once
Pow5(val) == (val * val * val * val * val) % P

\* sum_j row[j] * x[j] over the integers, from lane j upwards
RECURSIVE RowSum(_, _, _)
RowSum(row, x, j) ==
    IF j > Len(x) THEN 0 ELSE row[j] * x[j] + RowSum(row, x, j + 1)

\* M * x
MatVec(M, x) == [i \in 1 .. Len(x) |-> RowSum(M[i], x, 1) % P]

\* M * [sbox(s_0 + c_0), ..., sbox(s_{T-1} + c_{T-1})]
FullRoundOf(s, c) == MatVec(mds_matrix, [i \in 1 .. T |-> Pow5((s[i] + c[i]) % P)])

\* M * [sbox(s_0 + c_0), s_1 + c_1, ..., s_{T-1} + c_{T-1}]
PartRoundOf(s, c) ==
    MatVec(mds_matrix,
           [i \in 1 .. T |-> IF i = 1 THEN Pow5((s[1] + c[1]) % P) ELSE (s[i] + c[i]) % P])

\* the kind of the n-th round (n from 1) of full_rounds/2 full, partial_rounds
\* partial, full_rounds/2 full
RoundKind(n) ==
    IF n <= full_rounds \div 2 \/ n > (full_rounds \div 2) + partial_rounds
    THEN "full" ELSE "part"

\* the contract of Spec: an even full_rounds and one row of constants per round
WellFormed ==
    full_rounds % 2 = 0 /\ Len(round_constants) = full_rounds + partial_rounds

\* C21: for a well-formed specification permute applies full_rounds/2 full
\* rounds, then partial_rounds partial rounds, then full_rounds/2 full rounds,
\* and the n-th round applied (n from 1) maps the state left by round n - 1 with
\* row n - 1 of round_constants; the state permute leaves is that of the last round.
C21_RoundOrder ==
    (PermuteDone /\ WellFormed) =>
        /\ RoundsApplied = (full_rounds \div 2) + partial_rounds + (full_rounds \div 2)
        /\ \A n \in 1 .. RoundsApplied :
            /\ hist[n + 1].op = RoundKind(n)
            /\ hist[n + 1].state =
                   IF RoundKind(n) = "full"
                   THEN FullRoundOf(hist[n].state, round_constants[n])
                   ELSE PartRoundOf(hist[n].state, round_constants[n])
        /\ state = Last(hist).state

\* permute has run two full, two partial and two full rounds on a state of
\* three lanes that are not all equal
C21_Witness ==
    /\ PermuteDone /\ WellFormed /\ full_rounds = 4 /\ partial_rounds = 2 /\ T = 3
    /\ RoundsApplied = 6
    /\ hist[1].state = <<1, 0, 1>>

\* C22: a full round maps the state s it is given, with its row c of constants,
\* to M * [sbox(s_0 + c_0), ..., sbox(s_{T-1} + c_{T-1})].
C22_FullRound ==
    PermuteDone =>
        \A n \in 1 .. RoundsApplied :
            hist[n + 1].op = "full" =>
                hist[n + 1].state = FullRoundOf(hist[n].state, round_constants[n])

\* a full round ran on a state left by an earlier round, with lanes that differ
C22_Witness ==
    /\ PermuteDone /\ T = 3
    /\ \E n \in 2 .. RoundsApplied :
        /\ hist[n + 1].op = "full"
        /\ hist[n].state[1] # hist[n].state[2]
        /\ hist[n + 1].state # hist[n].state

\* C23: a partial round maps the state s it is given, with its row c of
\* constants, to M * [sbox(s_0 + c_0), s_1 + c_1, ..., s_{T-1} + c_{T-1}].
C23_PartialRound ==
    PermuteDone =>
        \A n \in 1 .. RoundsApplied :
            hist[n + 1].op = "part" =>
                hist[n + 1].state = PartRoundOf(hist[n].state, round_constants[n])

\* a partial round ran on a state whose lane 0, with its constant added, is
\* changed by the S-box
C23_Witness ==
    /\ PermuteDone /\ T = 3
    /\ \E n \in 2 .. RoundsApplied :
        /\ hist[n + 1].op = "part"
        /\ Pow5((hist[n].state[1] + round_constants[n][1]) % P)
               # (hist[n].state[1] + round_constants[n][1]) % P

\* C24: the default Spec::constants() returns full_rounds + partial_rounds rows
\* of T elements; row k holds the elements k*T .. k*T + T - 1 of the generator
\* stream, and the generator is passed to the matrix generation after all of
\* them are drawn.
C24_DefaultConstants ==
    S.hard_coded = None =>
        /\ Len(Spec_constants(T).round_constants) = full_rounds + partial_rounds
        /\ \A k \in 0 .. (full_rounds + partial_rounds - 1) :
            /\ Len(At(Spec_constants(T).round_constants, k)) = T
            /\ \A i \in 0 .. (T - 1) :
                At(At(Spec_constants(T).round_constants, k), i)
                    = next_field_element(k * T + i)
        /\ Spec_constants(T).grain = (full_rounds + partial_rounds) * T

\* permute has used a default table of six rows of three elements
C24_Witness ==
    /\ PermuteDone /\ S.hard_coded = None
    /\ full_rounds = 4 /\ partial_rounds = 2 /\ T = 3
    /\ Len(round_constants) = 6

\* C29: permute applies min(2 * (full_rounds / 2) + partial_rounds,
\* len(round_constants)) rounds and returns: the rounds applied are the first
\* ones of the schedule full, partial, full, each with the row of its index, and
\* with an odd full_rounds and a table that covers the schedule full_rounds - 1
\* full rounds are run.
C29_RoundsTruncated ==
    PermuteDone =>
        /\ RoundsApplied =
               Min(2 * (full_rounds \div 2) + partial_rounds, Len(round_constants))
        /\ ~panicked
        /\ state = Last(hist).state
        /\ \A n \in 1 .. RoundsApplied :
            /\ hist[n + 1].op = RoundKind(n)
            /\ hist[n + 1].v = n - 1
        /\ (full_rounds % 2 = 1 /\ Len(round_constants) >= full_rounds + partial_rounds) =>
               Cardinality({n \in 1 .. RoundsApplied : hist[n + 1].op = "full"})
                   = full_rounds - 1

\* permute has run on a table one row short of the schedule: the last full
\* round is missing
C29_Witness ==
    /\ PermuteDone /\ S.hard_coded = 2 /\ full_rounds = 2 /\ partial_rounds = 1
    /\ RoundsApplied = 2
    /\ hist[2].op = "full" /\ hist[3].op = "part"

\* C25: the buffer is contiguous: in Absorbing mode the set slots are a prefix
\* 0..k-1 of the buffer, in Squeezing mode a suffix k..RATE-1.
C25_ContiguousBuffer ==
    /\ sponge.mode = "Absorbing" =>
           \E k \in 0 .. RATE : \A i \in 0 .. (RATE - 1) : (At(sponge.buf, i) # None) <=> (i < k)
    /\ sponge.mode = "Squeezing" =>
           \E k \in 0 .. RATE : \A i \in 0 .. (RATE - 1) : (At(sponge.buf, i) # None) <=> (i >= k)

\* an absorb after squeezes has started a new buffer of three slots
C25_Witness ==
    /\ RATE = 3 /\ Len(hist) >= 3
    /\ hist[Len(hist) - 1].op = "squeeze" /\ Last(hist).op = "absorb"
    /\ sponge.mode = "Absorbing"
    /\ At(sponge.buf, 0) # None /\ At(sponge.buf, 1) = None /\ At(sponge.buf, 2) = None

\* the step is one iteration of the loop of Duplex::squeeze
SqueezeIterationStep ==
    Len(hist') = Len(hist) + 1 /\ Last(hist').op \in {"iter", "squeeze"}

\* the step runs a duplex round: an absorb on a full buffer, or an iteration of
\* squeeze in Absorbing mode
DuplexRoundStep ==
    \/ AbsorbStep /\ sponge.mode = "Absorbing" /\ FullySet(sponge.buf)
    \/ SqueezeIterationStep /\ sponge.mode = "Absorbing"

\* C26: in Squeezing mode every set slot i of the output buffer equals lane i of
\* the state, and the state changes only in a duplex round: an absorb that does
\* not find a full buffer in Absorbing mode, and an iteration of squeeze that is
\* not in Absorbing mode, leave the state and the round count as they were.
C26_OutputIsState ==
    /\ [](sponge.mode = "Squeezing" =>
            \A i \in 0 .. (RATE - 1) :
                At(sponge.buf, i) # None => At(sponge.buf, i) = At(state, i))
    /\ [](\A n \in 1 .. Len(hist) :
            RoundsOf(n) = 0 =>
                hist[n].state = (IF n = 1 THEN InitialState ELSE hist[n - 1].state))
    /\ [][((AbsorbStep \/ SqueezeIterationStep) /\ ~DuplexRoundStep) =>
            (state' = state /\ rounds' = rounds)]_vars

\* a second squeeze has read the buffer and two unread slots are left
C26_Witness ==
    /\ RATE = 3 /\ Len(hist) >= 3 /\ sponge.mode = "Squeezing"
    /\ hist[Len(hist) - 1].op = "squeeze" /\ Last(hist).op = "squeeze"
    /\ RoundsOf(Len(hist)) = 0 /\ rounds >= 1
    /\ At(sponge.buf, 1) = None /\ At(sponge.buf, 2) # None

CeilDiv(a, b) == (a + b - 1) \div b

\* block b (from 1) of the message added into lanes 0.. of the state: elements
\* (b-1)*RATE .. min(b*RATE, L)-1
BlockFolded(st, message, b) ==
    [i \in 1 .. T |->
        IF i <= RATE /\ (b - 1) * RATE + i <= Len(message)
        THEN (st[i] + message[(b - 1) * RATE + i]) % P
        ELSE st[i]]

\* the state call n of hist was made on
StateBefore(n) == IF n = 1 THEN InitialState ELSE hist[n - 1].state

\* C28: Hash::hash returns for every L, also L > RATE: it runs max(1,
\* ceil(L/RATE)) duplex rounds; round b (from 1) is run by the absorb that finds
\* block b - 1 full, the last one by the squeeze, and it folds block b of the
\* message into the leading lanes of the state and permutes; no other call
\* touches the state, and the value returned is lane 0 after the last round.
C28_LongMessageHash ==
    hashed # <<>> =>
        /\ ~panicked
        /\ Len(hist) = L + 1
        /\ rounds = (IF L = 0 THEN 1 ELSE CeilDiv(L, RATE))
        /\ L > RATE => rounds = CeilDiv(L, RATE)
        /\ \A n \in 1 .. Len(hist) :
            /\ RoundsOf(n) = (IF n = L + 1 \/ (n > 1 /\ (n - 1) % RATE = 0) THEN 1 ELSE 0)
            /\ hist[n].state =
                   IF RoundsOf(n) = 1
                   THEN Permuted(BlockFolded(StateBefore(n), hashed[1].message,
                                             hist[n].rounds))
                   ELSE StateBefore(n)
        /\ hashed[1].output = At(state, 0)
        /\ state = Last(hist).state

\* a message of three elements hashed at rate two: a full block and a short one
C28_Witness ==
    /\ hashed # <<>> /\ L = 3 /\ RATE = 2 /\ rounds = 2
    /\ hashed[1].message = <<1, 0, 1>>

\* the number of iterations of squeeze at the end of hist that did not return
RECURSIVE TrailingIters(_)
TrailingIters(n) ==
    IF n = 0 \/ hist[n].op # "iter" THEN 0 ELSE 1 + TrailingIters(n - 1)

\* the round count when the call of squeeze that is running, if any, began
RoundsAtCallStart ==
    IF Len(hist) = TrailingIters(Len(hist)) THEN 0
    ELSE hist[Len(hist) - TrailingIters(Len(hist))].rounds

\* C27: for RATE >= 1 a call of Duplex::squeeze returns within three iterations
\* of its loop and runs at most one duplex round; for RATE = 0 no iteration ever
\* returns, and every iteration flips the mode between Absorbing and Squeezing.
C27_SqueezeTermination ==
    /\ [](RATE >= 1 =>
            /\ TrailingIters(Len(hist)) <= 2
            /\ rounds - RoundsAtCallStart <= 1
            /\ (TrailingIters(Len(hist)) = 2 /\ ~panicked) =>
                   /\ squeeze_iteration(duplex).done
                   /\ squeeze_iteration(duplex).duplex.rounds = rounds
            /\ (~InCall /\ ~panicked) =>
                   /\ Duplex_squeeze(duplex).iters <= 3
                   /\ Duplex_squeeze(duplex).duplex.rounds <= rounds + 1)
    /\ [](RATE = 0 =>
            /\ \A n \in 1 .. Len(hist) : hist[n].op # "squeeze"
            /\ ~panicked => ~squeeze_iteration(duplex).done)
    /\ [][(RATE = 0 /\ SqueezeIterationStep) => sponge'.mode # sponge.mode]_vars

\* at rate 1 a second squeeze has gone round the loop twice (back to Absorbing
\* mode, then the duplex round) and returned in its third iteration
C27_Witness ==
    /\ RATE = 1 /\ Len(hist) = 5
    /\ hist[2].op = "squeeze" /\ hist[3].op = "iter" /\ hist[4].op = "iter"
    /\ hist[5].op = "squeeze"
    /\ rounds = 2

\* at rate 0 the loop has gone round five times, permuting in every other one
C27_WitnessRateZero ==
    /\ RATE = 0 /\ Len(hist) = 5 /\ TrailingIters(5) = 5
    /\ rounds = 3

TypeOK ==
    /\ RATE \in 0 .. MaxRate
    /\ T > RATE
    /\ sponge.mode \in {"Absorbing", "Squeezing"}
    /\ Len(sponge.buf) = RATE
    /\ \A i \in 1 .. RATE : sponge.buf[i] \in F \cup {None}
    /\ Len(state) = T
    /\ \A i \in 1 .. T : state[i] \in F
    /\ rounds \in Nat
    /\ Len(hashed) <= 1
====
